---- MODULE Spec2Model ----
(***************************************************************************)
(* A model of src/ngc.py: the GNCN_PDH predictive-coding network and the    *)
(* training step of run_ngc that drives it.                                 *)
(*                                                                          *)
(* Tensors are matrices, written as sequences of rows.  Real numbers are    *)
(* fixed-point integers in units of 1/One; a quotient is truncated toward   *)
(* zero onto that grid.  Python lists (W, E, z, e, mu) are functions on     *)
(* 0..n-1, so that the indices of the model are the indices of the source.  *)
(***************************************************************************)
EXTENDS Integers, Sequences, FiniteSets

\* ------------------------------------------------------------------ bounds
\* Largest hierarchy depth L handed to the constructor.
MaxL == 4
\* Largest settling-iteration count K handed to infer.
MaxK == 4
\* Number of training steps run_ngc's loop is followed for.
MaxSteps == 2

\* The fixed-point grid: the real number 1.0.
One == 2 * 8

\* ------------------------------------------------------------- arithmetic
Sgn(a) == IF a > 0 THEN 1 ELSE IF a < 0 THEN -1 ELSE 0
Max(a, b) == IF a > b THEN a ELSE b
\* a / b for b > 0, truncated toward zero
TDiv(a, b) == IF a >= 0 THEN a \div b ELSE -((-a) \div b)
\* the product of two fixed-point numbers
FMul(a, b) == TDiv(a * b, One)
\* floor of the square root
ISqrt(n) == CHOOSE m \in 0..n : m * m <= n /\ (m + 1) * (m + 1) > n

RECURSIVE SumTo(_, _)
\* f[1] + ... + f[n]
SumTo(f, n) == IF n = 0 THEN 0 ELSE f[n] + SumTo(f, n - 1)

\* --------------------------------------------------------------- tensors
Rows(M) == Len(M)
Cols(M) == Len(M[1])
Shape(M) == <<Rows(M), Cols(M)>>

\* torch.zeros([r, c])
TorchZeros(r, c) == [a \in 1..r |-> [b \in 1..c |-> 0]]
\* M.T
Transpose(M) == [a \in 1..Cols(M) |-> [b \in 1..Rows(M) |-> M[b][a]]]

\* A @ B is defined when the inner sizes agree; otherwise torch raises.
MatMulOK(A, B) == Cols(A) = Rows(B)
\* The entries of A @ B before they are put on the grid (units of 1/One^2).
Dot(A, B, r, c) == SumTo([k \in 1..Cols(A) |-> A[r][k] * B[k][c]], Cols(A))
MatMul(A, B) == [r \in 1..Rows(A) |-> [c \in 1..Cols(B) |-> TDiv(Dot(A, B, r, c), One)]]

\* Broadcasting of one dimension: the common size, or 0 when torch raises.
BDim(m, n) == IF m = n THEN m ELSE IF m = 1 THEN n ELSE IF n = 1 THEN m ELSE 0
BroadcastOK(A, B) == BDim(Rows(A), Rows(B)) # 0 /\ BDim(Cols(A), Cols(B)) # 0
\* The entry of M at (r, c) of a shape M was broadcast to.
At(M, r, c) == M[IF Rows(M) = 1 THEN 1 ELSE r][IF Cols(M) = 1 THEN 1 ELSE c]
\* A - B with broadcasting
Sub(A, B) ==
    [r \in 1..BDim(Rows(A), Rows(B)) |->
        [c \in 1..BDim(Cols(A), Cols(B)) |-> At(A, r, c) - At(B, r, c)]]
\* A + B with broadcasting
Add(A, B) ==
    [r \in 1..BDim(Rows(A), Rows(B)) |->
        [c \in 1..BDim(Cols(A), Cols(B)) |-> At(A, r, c) + At(B, r, c)]]
\* Z += T keeps the shape of Z: T has to broadcast to it.
IAddOK(Z, T) == Rows(T) \in {Rows(Z), 1} /\ Cols(T) \in {Cols(Z), 1}
IAdd(Z, T) == [r \in 1..Rows(Z) |-> [c \in 1..Cols(Z) |-> Z[r][c] + At(T, r, c)]]
\* s * M for a fixed-point scalar s
ScalarMul(s, M) == [r \in 1..Rows(M) |-> [c \in 1..Cols(M) |-> FMul(s, M[r][c])]]

\* torch.relu, pointwise
Relu(v) == IF v > 0 THEN v ELSE 0
\* torch.sigmoid rounded to the nearest grid point: the k-th entry is the
\* least grid value v with sigmoid(v/One) >= (2k-1)/(2*One).
SigmoidSteps == <<-54, -36, -26, -20, -15, -10, -6, -2, 3, 7, 11, 16, 21, 27, 37, 55>>
Sigmoid(v) == Cardinality({k \in 1..Len(SigmoidSteps) : SigmoidSteps[k] <= v})

\* Squared Euclidean norm of column c of M (units of 1/One^2).
ColNormSq(M, c) == SumTo([r \in 1..Rows(M) |-> M[r][c] * M[r][c]], Rows(M))
\* torch.sum(M ** 2) (units of 1/One^2)
SumSq(M) == SumTo([r \in 1..Rows(M) |-> SumTo([c \in 1..Cols(M) |-> M[r][c] * M[r][c]], Cols(M))], Rows(M))

\* A Python list as a function on 0..n-1.
ListOf(s) == [j \in 0..(Len(s) - 1) |-> s[j + 1]]
\* range(n) for any integer n: empty when n <= 0
Range(n) == 0..(n - 1)

\* The value None, where a tensor or a list is expected.
None == <<>>

VARIABLES
    args,       \* the arguments of GNCN_PDH.__init__, and the seed set before it
    K,          \* the K run_ngc hands to every infer
    pc,         \* where the program is
    W, E,       \* self.W, self.E
    gradW, gradE, \* the .grad slots of W[l], E[l]
    x,          \* the batch handed to the infer in progress (or last made)
    z, e, mu,   \* the locals of infer
    k, i,       \* infer: the settling iteration (1..K) and the layer index
    self_z, self_e, \* self.z, self.e
    disc,       \* the last value calc_total_discrepancy returned
    step,       \* training steps completed
    zIter, eIter, \* history: the iteration that last wrote z[j], e[j] (0: never)
    exceeded    \* history: a column norm was above 1 after the last optimizer step

vars == <<args, K, pc, W, E, gradW, gradE, x, z, e, mu, k, i, self_z, self_e,
          disc, step, zIter, eIter, exceeded>>

\* ----------------------------------------------------- the Parameter Store
\* The draw of torch's generator for entry (r, c) of the m-th tensor made
\* after set_seed(seed): a standard-normal sample on a coarse grid.
Normal(seed, m, r, c) == ((seed * 7 + m * 5 + r * 3 + c * (seed + 1)) % 5) - 2

\* init_gaussian_dense(dims, stddev, device), the m-th tensor drawn
init_gaussian_dense(dims, stddev, seed, m) ==
    [r \in 1..dims[1] |-> [c \in 1..dims[2] |-> stddev * Normal(seed, m, r, c)]]

\* The entry wv of a column of squared norm nsq, divided by max(norm, 1.0).
ClipEntry(wv, nsq) ==
    IF nsq <= One * One THEN wv
    ELSE Sgn(wv) * ISqrt(((wv * One) * (wv * One)) \div nsq)

\* M / torch.maximum(M.norm(dim=0, keepdim=True), 1.0)
ClipColumns(M) ==
    [r \in 1..Rows(M) |-> [c \in 1..Cols(M) |-> ClipEntry(M[r][c], ColNormSq(M, c))]]

\* The layers clip_weights visits.
ClippedLayers(a) == Range(a.L)

\* A clip_weights that leaves E alone.
clip_E_Forgotten(a, ee) == ee
\* clip_weights: the new W and E
clip_W(a, w) == [l \in DOMAIN w |-> IF l \in ClippedLayers(a) THEN ClipColumns(w[l]) ELSE w[l]]
clip_E(a, ee) == [l \in DOMAIN ee |-> IF l \in ClippedLayers(a) THEN ClipColumns(ee[l]) ELSE ee[l]]

\* self.W as __init__ builds it (lines 26-28)
InitW(a) ==
    ListOf(<<init_gaussian_dense(<<a.dim_hid, a.dim_inp>>, a.weight_stddev, a.seed, 0)>>
           \o [n \in 1..Max(a.L - 2, 0) |->
                 init_gaussian_dense(<<a.dim_hid, a.dim_hid>>, a.weight_stddev, a.seed, n)]
           \o <<init_gaussian_dense(<<a.dim_top, a.dim_hid>>, a.weight_stddev, a.seed,
                                    Max(a.L - 2, 0) + 1)>>)

\* The shape of E[l] for l >= 1 (line 31)
UpperEShape(a) == <<a.dim_hid, a.dim_hid>>

\* self.E as __init__ builds it (lines 30-31)
InitE(a) ==
    ListOf(<<init_gaussian_dense(<<a.dim_inp, a.dim_hid>>, a.weight_stddev, a.seed,
                                 Max(a.L - 2, 0) + 2)>>
           \o [n \in 1..Max(a.L - 1, 0) |->
                 init_gaussian_dense(UpperEShape(a), a.weight_stddev, a.seed,
                                     Max(a.L - 2, 0) + 2 + n)])

\* The conditions under which __init__ raises NotImplementedError.
ConfigRejected(a) ==
    \/ a.alpha_m # 0
    \/ a.fn_phi_name # "relu"
    \/ a.fn_g_hid_name # "relu"
    \/ a.fn_g_out_name # "sigmoid"

\* self.fn_phi, self.fn_g_hid, self.fn_g_out on a tensor
fn_phi(M) == [r \in 1..Rows(M) |-> [c \in 1..Cols(M) |-> Relu(M[r][c])]]
fn_g_hid(M) == [r \in 1..Rows(M) |-> [c \in 1..Cols(M) |-> Relu(M[r][c])]]
fn_g_out(M) == [r \in 1..Rows(M) |-> [c \in 1..Cols(M) |-> Sigmoid(M[r][c])]]

\* parameters(): self.W + self.E, as (list, index) pairs
parameters == ({"W"} \X DOMAIN W) \cup ({"E"} \X DOMAIN E)
Param(p) == IF p[1] = "W" THEN W[p[2]] ELSE E[p[2]]

\* The tuples (dim_inp, dim_hid, dim_top) the constructor is tried with.
DimChoices == {<<2, 2, 2>>, <<2, 1, 2>>, <<2, 2, 1>>, <<1, 2, 2>>}
\* The (phi, g_hid, g_out) names the constructor is tried with.
NameChoices == {<<"relu", "relu", "sigmoid">>, <<"tanh", "relu", "sigmoid">>,
                <<"relu", "tanh", "sigmoid">>, <<"relu", "relu", "softmax">>}

Init ==
    /\ \E Lv \in 0..MaxL, d \in DimChoices, n \in NameChoices, am \in {0, 1}, s \in {1, 2} :
          args = [L |-> Lv, dim_inp |-> d[1], dim_hid |-> d[2], dim_top |-> d[3],
                  weight_stddev |-> One, beta |-> One, gamma |-> 1, alpha_m |-> am,
                  fn_phi_name |-> n[1], fn_g_hid_name |-> n[2], fn_g_out_name |-> n[3],
                  seed |-> s]
    /\ K \in 0..MaxK
    /\ pc = "new"
    /\ W = <<>> /\ E = <<>> /\ gradW = <<>> /\ gradE = <<>>
    /\ x = <<>> /\ z = <<>> /\ e = <<>> /\ mu = <<>>
    /\ k = 0 /\ i = 0
    /\ self_z = None /\ self_e = None
    /\ disc = None
    /\ step = 0
    /\ zIter = <<>> /\ eIter = <<>>
    /\ exceeded = FALSE

\* GNCN_PDH.__init__
GNCN_PDH_init ==
    /\ pc = "new"
    /\ IF ConfigRejected(args)
       THEN /\ pc' = "NotImplementedError"
            /\ W' = InitW(args)
            /\ E' = InitE(args)
       ELSE /\ pc' = "loop"
            /\ W' = clip_W(args, InitW(args))
            /\ E' = clip_E(args, InitE(args))
    /\ gradW' = [l \in DOMAIN W' |-> None]
    /\ gradE' = [l \in DOMAIN E' |-> None]
    /\ UNCHANGED <<args, K, x, z, e, mu, k, i, self_z, self_e, disc, step,
                   zIter, eIter, exceeded>>

\* ------------------------------------------------------ the Inference Engine
\* The batches infer is tried with, for a model of input width n: rows of
\* binarized pixels, of the configured width, of width 1 and one too wide.
Batch(b, w, p) == [r \in 1..b |-> [c \in 1..w |-> One * ((r + c + p) % 2)]]
Batches(n) == {Batch(1, n, 0), Batch(2, n, 1), Batch(2, 1, 0), Batch(1, n + 1, 0)}

\* z and e as infer allocates them (lines 60-66): the input (for e: zeros of
\* width dim_inp), range(L-1) hidden layers, one top layer.
NewStates(a, first, b) ==
    ListOf(<<first>>
           \o [n \in 1..Max(a.L - 1, 0) |-> TorchZeros(b, a.dim_hid)]
           \o <<TorchZeros(b, a.dim_top)>>)

\* An e allocated like z, from the input.
InitialErrorIsInput(a, xx) == xx
\* e[0] as infer allocates it (line 61)
InitialError(a, xx) == TorchZeros(Rows(xx), a.dim_inp)

\* Where an iteration of the settling loop begins: the state-update pass
\* (range(1, L+1) is empty when L < 1).
IterStartPc(a) == IF a.L >= 1 THEN "update" ELSE "recompute0"
\* A state-update pass over range(1, L), which stops below the top layer.
AfterUpdatePcSkipTop(a, j) == IF j < a.L - 1 THEN "update" ELSE "recompute0"
\* After z[j] is updated: the next layer of the pass, or the recompute pass.
AfterUpdatePc(a, j) == IF j < a.L THEN "update" ELSE "recompute0"
\* A settling loop whose body runs before K is tested.
IterationsAtLeastOnce(n) == Max(n, 1)
\* The number of settling iterations infer runs: range(K).
Iterations(n) == n
\* After the recompute pass of iteration kk: the next iteration, or the end.
AfterIteration(a, kk) ==
    IF kk < Iterations(K) THEN [pc |-> IterStartPc(a), k |-> kk + 1, i |-> 1]
    ELSE [pc |-> "store", k |-> kk, i |-> 0]

\* An exception leaves infer: its locals are gone, self.z and self.e untouched.
Raise(exc) ==
    /\ pc' = exc
    /\ UNCHANGED <<args, K, W, E, gradW, gradE, x, z, e, mu, k, i, self_z, self_e,
                   disc, step, zIter, eIter, exceeded>>

\* infer, lines 59-68: the allocation of z, e and mu
InferCall ==
    /\ pc = "loop"
    /\ step < MaxSteps
    /\ \E xx \in Batches(args.dim_inp) :
          /\ x' = xx
          /\ z' = NewStates(args, xx, Rows(xx))
          /\ e' = NewStates(args, InitialError(args, xx), Rows(xx))
    /\ mu' = [l \in Range(args.L) |-> None]
    /\ zIter' = [j \in DOMAIN z' |-> 0]
    /\ eIter' = [j \in DOMAIN e' |-> 0]
    /\ IF Iterations(K) >= 1
       THEN pc' = IterStartPc(args) /\ k' = 1 /\ i' = 1
       ELSE pc' = "store" /\ k' = 0 /\ i' = 0
    /\ UNCHANGED <<args, K, W, E, gradW, gradE, self_z, self_e, disc, step, exceeded>>

\* A state update that also applies the leak to the observed layer.
StateUpdateLeaksInput(zz, j, inc) ==
    [zz EXCEPT ![j] = IAdd(zz[j], inc), ![0] = IAdd(zz[0], ScalarMul(-args.gamma, zz[0]))]
\* The list z after the state update of layer j with increment inc (line 73).
StateUpdate(zz, j, inc) == [zz EXCEPT ![j] = IAdd(zz[j], inc)]

\* infer, lines 72-73: one layer of the state-update pass
UpdateZ ==
    /\ pc = "update"
    /\ IF ~MatMulOK(e[i - 1], E[i - 1]) THEN Raise("RuntimeError")
       ELSE LET up == MatMul(e[i - 1], E[i - 1]) IN
       IF ~BroadcastOK(up, e[i]) THEN Raise("RuntimeError")
       ELSE LET di == Sub(up, e[i])
                leak == ScalarMul(-args.gamma, z[i]) IN
       IF ~BroadcastOK(leak, di) THEN Raise("RuntimeError")
       ELSE LET inc == ScalarMul(args.beta, Add(leak, di)) IN
       IF ~IAddOK(z[i], inc) THEN Raise("RuntimeError")
       ELSE /\ z' = StateUpdate(z, i, inc)
            /\ zIter' = [zIter EXCEPT ![i] = k]
            /\ pc' = AfterUpdatePc(args, i)
            /\ i' = IF pc' = "update" THEN i + 1 ELSE 0
            /\ UNCHANGED <<args, K, W, E, gradW, gradE, x, e, mu, k, self_z, self_e,
                           disc, step, eIter, exceeded>>

\* infer, lines 75-76: the prediction and the error of the observed layer
RecomputeOut ==
    /\ pc = "recompute0"
    /\ IF ~MatMulOK(fn_phi(z[1]), W[0]) THEN Raise("RuntimeError")
       ELSE IF 0 \notin DOMAIN mu THEN Raise("IndexError")
       ELSE LET mu0 == fn_g_out(MatMul(fn_phi(z[1]), W[0])) IN
       IF ~BroadcastOK(z[0], mu0) THEN Raise("RuntimeError")
       ELSE /\ mu' = [mu EXCEPT ![0] = mu0]
            /\ e' = [e EXCEPT ![0] = Sub(z[0], mu0)]
            /\ eIter' = [eIter EXCEPT ![0] = k]
            /\ IF args.L >= 2
               THEN pc' = "recompute" /\ i' = 1 /\ k' = k
               ELSE LET n == AfterIteration(args, k) IN
                    pc' = n.pc /\ i' = n.i /\ k' = n.k
            /\ UNCHANGED <<args, K, W, E, gradW, gradE, x, z, self_z, self_e,
                           disc, step, zIter, exceeded>>

\* infer, lines 78-79: the prediction and the error of hidden layer i
RecomputeHid ==
    /\ pc = "recompute"
    /\ IF ~MatMulOK(fn_phi(z[i + 1]), W[i]) THEN Raise("RuntimeError")
       ELSE LET mui == fn_g_hid(MatMul(fn_phi(z[i + 1]), W[i])) IN
       IF ~BroadcastOK(fn_phi(z[i]), mui) THEN Raise("RuntimeError")
       ELSE /\ mu' = [mu EXCEPT ![i] = mui]
            /\ e' = [e EXCEPT ![i] = Sub(fn_phi(z[i]), mui)]
            /\ eIter' = [eIter EXCEPT ![i] = k]
            /\ IF i < args.L - 1
               THEN pc' = "recompute" /\ i' = i + 1 /\ k' = k
               ELSE LET n == AfterIteration(args, k) IN
                    pc' = n.pc /\ i' = n.i /\ k' = n.k
            /\ UNCHANGED <<args, K, W, E, gradW, gradE, x, z, self_z, self_e,
                           disc, step, zIter, exceeded>>

\* infer, lines 81-82: self.z = z; self.e = e, and the return
InferStore ==
    /\ pc = "store"
    /\ self_z' = z
    /\ self_e' = e
    /\ pc' = "zero_grad"
    /\ UNCHANGED <<args, K, W, E, gradW, gradE, x, z, e, mu, k, i, disc, step,
                   zIter, eIter, exceeded>>

\* ------------------------------------------------------ the training step
\* optimizer.zero_grad() (line 171): every gradient slot is reset to None
ZeroGrad ==
    /\ pc = "zero_grad"
    /\ gradW' = [l \in DOMAIN W |-> None]
    /\ gradE' = [l \in DOMAIN E |-> None]
    /\ pc' = "calc_updates"
    /\ UNCHANGED <<args, K, W, E, x, z, e, mu, k, i, self_z, self_e, disc, step,
                   zIter, eIter, exceeded>>

\* avg_factor * M with avg_factor = -1.0 / batch_size (lines 86, 91)
AvgFactorMul(batch_size, M) ==
    [r \in 1..Rows(M) |-> [c \in 1..Cols(M) |-> TDiv(-M[r][c], batch_size)]]

\* An error-weight gradient tied to the value of W[l].
ErrorGradOfWeight(dWl, Wl) == Transpose(Wl)
\* dEl, from dWl and the weight matrix W[l] (line 92)
ErrorGrad(dWl, Wl) == Transpose(dWl)

RECURSIVE CalcFrom(_, _, _)
\* calc_updates from layer l on, with the gradient slots as they are so far:
\* assigning .grad a tensor of another shape than its parameter raises.
CalcFrom(l, gw, ge) ==
    IF l >= args.L THEN [gradW |-> gw, gradE |-> ge, exc |-> "returned"]
    ELSE IF ~MatMulOK(Transpose(fn_phi(self_z[l + 1])), self_e[l])
         THEN [gradW |-> gw, gradE |-> ge, exc |-> "RuntimeError"]
    ELSE LET dWl == AvgFactorMul(Rows(self_z[0]),
                                 MatMul(Transpose(fn_phi(self_z[l + 1])), self_e[l]))
             dEl == ErrorGrad(dWl, W[l])
             gw2 == [gw EXCEPT ![l] = dWl] IN
         IF Shape(dWl) # Shape(W[l])
         THEN [gradW |-> gw, gradE |-> ge, exc |-> "RuntimeError"]
         ELSE IF Shape(dEl) # Shape(E[l])
         THEN [gradW |-> gw2, gradE |-> ge, exc |-> "RuntimeError"]
         ELSE CalcFrom(l + 1, gw2, [ge EXCEPT ![l] = dEl])

\* calc_updates
CalcUpdates ==
    /\ pc = "calc_updates"
    /\ LET r == CalcFrom(0, gradW, gradE) IN
          /\ gradW' = r.gradW
          /\ gradE' = r.gradE
          /\ pc' = IF r.exc = "returned" THEN "discrepancy" ELSE r.exc
    /\ UNCHANGED <<args, K, W, E, x, z, e, mu, k, i, self_z, self_e, disc, step,
                   zIter, eIter, exceeded>>

\* The literal 3 of self.e[:3]
SliceEnd == 3
\* lst[:n]
Slice(lst, n) == [j \in DOMAIN lst \cap Range(n) |-> lst[j]]

RECURSIVE SumList(_, _)
\* sum(f[0..n-1])
SumList(f, n) == IF n <= 0 THEN 0 ELSE f[n - 1] + SumList(f, n - 1)

\* A slice one layer short.
DiscrepancyLayersTwo(ee) == DOMAIN Slice(ee, SliceEnd - 1)
\* The layers of self.e calc_total_discrepancy sums over.
DiscrepancyLayers(ee) == DOMAIN Slice(ee, SliceEnd)

\* calc_total_discrepancy
calc_total_discrepancy(ee) ==
    LET sq == [j \in DiscrepancyLayers(ee) |-> SumSq(ee[j])] IN
    SumList(sq, Cardinality(DOMAIN sq))

\* line 174
CalcTotalDiscrepancy ==
    /\ pc = "discrepancy"
    /\ disc' = calc_total_discrepancy(self_e)
    /\ pc' = "optimizer_step"
    /\ UNCHANGED <<args, K, W, E, gradW, gradE, x, z, e, mu, k, i, self_z, self_e,
                   step, zIter, eIter, exceeded>>

\* The learning rate of the optimizer, on the grid.
lr == One \div 4

\* The optimizer's update of one parameter: a descent step of size lr against
\* the sign of the gradient (Adam's first step); a parameter without a
\* gradient is skipped.
Descend(M, g) ==
    IF g = None THEN M
    ELSE [r \in 1..Rows(M) |-> [c \in 1..Cols(M) |-> M[r][c] - lr * Sgn(g[r][c])]]

\* Every column of M has Euclidean norm <= 1.
ColumnsInBall(M) == \A c \in 1..Cols(M) : ColNormSq(M, c) <= One * One

\* optimizer.step() (line 177)
OptimizerStep ==
    /\ pc = "optimizer_step"
    /\ W' = [l \in DOMAIN W |-> Descend(W[l], gradW[l])]
    /\ E' = [l \in DOMAIN E |-> Descend(E[l], gradE[l])]
    /\ exceeded' = \/ \E l \in DOMAIN W' : ~ColumnsInBall(W'[l])
                   \/ \E l \in DOMAIN E' : ~ColumnsInBall(E'[l])
    /\ pc' = "clip_weights"
    /\ UNCHANGED <<args, K, gradW, gradE, x, z, e, mu, k, i, self_z, self_e, disc,
                   step, zIter, eIter>>

\* model.clip_weights() (line 179), and the end of the loop body
ClipWeights ==
    /\ pc = "clip_weights"
    /\ W' = clip_W(args, W)
    /\ E' = clip_E(args, E)
    /\ step' = step + 1
    /\ pc' = "loop"
    /\ UNCHANGED <<args, K, gradW, gradE, x, z, e, mu, k, i, self_z, self_e, disc,
                   zIter, eIter, exceeded>>

Next ==
    \/ GNCN_PDH_init
    \/ InferCall
    \/ UpdateZ
    \/ RecomputeOut
    \/ RecomputeHid
    \/ InferStore
    \/ ZeroGrad
    \/ CalcUpdates
    \/ CalcTotalDiscrepancy
    \/ OptimizerStep
    \/ ClipWeights


Spec == Init /\ [][Next]_vars

\* ------------------------------------------------------------------ claims
NonZero(M) == \E r \in 1..Rows(M), c \in 1..Cols(M) : M[r][c] # 0
AllZero(M) == ~NonZero(M)
\* dim[0..L] of the data model: dim_inp, dim_hid ..., dim_top
dim(a, l) == IF l = 0 THEN a.dim_inp ELSE IF l = a.L THEN a.dim_top ELSE a.dim_hid
\* infer is running
InferPcs == {"update", "recompute0", "recompute", "store"}
\* infer has returned normally and the training step goes on
AfterInferPcs == {"zero_grad", "calc_updates", "discrepancy", "optimizer_step", "clip_weights"}
\* A model instance exists.
Constructed == pc \notin {"new", "NotImplementedError"}

\* C1: for every boundary l in 0..L-1 the matrix E[l] made by the constructor
\* has shape [dim[l], dim[l+1]], also when dim_top differs from dim_hid (stated
\* for the depths L >= 2 the specification allows).
C1_ErrorWeightShapes ==
    (Constructed /\ args.L >= 2) =>
        \A l \in Range(args.L) :
            l \in DOMAIN E /\ Shape(E[l]) = <<dim(args, l), dim(args, l + 1)>>

\* C2: z[0] equals the input x in every intermediate state of infer, and in
\* the stored state after infer has returned.
C2_InputClamped ==
    /\ pc \in InferPcs => z[0] = x
    /\ pc \in AfterInferPcs => self_z[0] = x
\* C2: an infer of at least two iterations has returned with a moved z[1].
C2_Witness ==
    /\ pc = "zero_grad"
    /\ k >= 2
    /\ NonZero(self_z[1])
    /\ self_z[0] = x

\* C3: outside the window between an optimizer step and the clip_weights that
\* follows it (so at the start of every infer), every column of every W[l]
\* and E[l], l in 0..L-1, has Euclidean norm <= 1; for L >= 2 these are all
\* the matrices parameters() returns.
C3_ColumnNorms ==
    (Constructed /\ pc # "clip_weights") =>
        /\ \A l \in Range(args.L) : ColumnsInBall(W[l]) /\ ColumnsInBall(E[l])
        /\ args.L >= 2 => \A p \in parameters : ColumnsInBall(Param(p))
\* C3: the next infer is about to start after a training step whose optimizer
\* step had pushed a column out of the unit ball.
C3_Witness ==
    /\ pc = "loop"
    /\ step >= 1
    /\ args.L >= 2
    /\ exceeded

\* C4: no model instance with L < 2 is produced: construction with L < 2
\* ends in a configuration error.
C4_SmallDepthRejected ==
    args.L < 2 => ~Constructed

\* C5: an infer whose input width differs from dim_inp is rejected before any
\* state update or error recompute, never returns normally and never stores
\* (stated for the models the specification allows: L >= 2).
C5_WidthRejected ==
    (x # <<>> /\ Cols(x) # args.dim_inp /\ args.L >= 2) =>
        /\ pc \notin AfterInferPcs \cup {"loop"}
        /\ pc \in InferPcs =>
              (\A j \in DOMAIN zIter : zIter[j] = 0) /\ (\A j \in DOMAIN eIter : eIter[j] = 0)

\* The correlation of the activated layer above with the error below, summed
\* over the batch, in units of 1/One^2.
Correlation(zs, es, l, r, c) ==
    SumTo([b \in 1..Rows(zs[0]) |-> Relu(zs[l + 1][b][r]) * es[l][b][c]], Rows(zs[0]))

\* C6: calc_updates leaves W and E as they are, and when it returns the
\* gradient slot of every W[l], l in 0..L-1, holds -(1/batch_size) *
\* phi(z[l+1])^T @ e[l] of the stored z and e, and the slot of E[l] holds the
\* transpose of that gradient.
C6_LocalGradients ==
    [][pc = "calc_updates" =>
         /\ W' = W
         /\ E' = E
         /\ pc' = "discrepancy" =>
               \A l \in Range(args.L) :
                  /\ Shape(gradW'[l]) = <<dim(args, l + 1), dim(args, l)>>
                  /\ \A r \in 1..dim(args, l + 1), c \in 1..dim(args, l) :
                        /\ gradW'[l][r][c] =
                              TDiv(-Correlation(self_z, self_e, l, r, c), Rows(self_z[0]) * One)
                        /\ gradE'[l][c][r] = gradW'[l][r][c]
                  /\ Shape(gradE'[l]) = <<dim(args, l), dim(args, l + 1)>>]_vars
\* C6: calc_updates has returned with a gradient for W[1] that is not zero
\* and a gradient for E[1] that is not the transpose of W[1].
C6_Witness ==
    /\ pc = "discrepancy"
    /\ args.L >= 2
    /\ NonZero(gradW[1])
    /\ gradE[1] # Transpose(W[1])

\* C7, as claimed: infer(x, K=0) leaves z[1..L] and e[1..L] zero and computes
\* e[0] = x - g_out(phi(0) @ W[0]) in one recompute pass (stated for L >= 2
\* and an input of the configured width).
C7_RecomputeAtZero ==
    (pc = "zero_grad" /\ K = 0 /\ args.L >= 2 /\ Cols(x) = args.dim_inp) =>
        /\ \A j \in 1..args.L : AllZero(self_z[j]) /\ AllZero(self_e[j])
        /\ \A r \in 1..Rows(x), c \in 1..Cols(x) :
              self_e[0][r][c] = x[r][c] - Sigmoid(0)
\* C7, amended: infer(x, K=0) runs no pass at all: z[1..L] and every e[0..L]
\* stay zero and no prediction mu is computed.
C7_NoPassAtZero ==
    (pc = "zero_grad" /\ K = 0) =>
        /\ \A j \in DOMAIN self_z \ {0} : AllZero(self_z[j])
        /\ \A j \in DOMAIN self_e : AllZero(self_e[j])
        /\ \A j \in DOMAIN mu : mu[j] = None
\* C7: infer(x, K=0) has returned for a model of depth >= 2 and an input
\* with a pixel set.
C7_Witness ==
    /\ pc = "zero_grad"
    /\ K = 0
    /\ args.L >= 2
    /\ NonZero(x)

\* The sum of squared entries over all the error layers e[0..L].
TotalDiscrepancy(ee) ==
    SumList([j \in DOMAIN ee |-> SumSq(ee[j])], Cardinality(DOMAIN ee))
\* The sum of squared entries of e[0], e[1], e[2] (of those that exist).
FirstThree(ee) ==
    SumSq(ee[0]) + SumSq(ee[1]) + (IF 2 \in DOMAIN ee THEN SumSq(ee[2]) ELSE 0)

\* C8, as claimed: the result is the sum over e[0], e[1], e[2], and for every
\* L >= 2 other than 3 it is not the total: an error layer is left out of it.
C8_NotTheTotal ==
    (pc = "optimizer_step" /\ args.L >= 2 /\ args.L # 3) =>
        /\ disc = FirstThree(self_e)
        /\ DiscrepancyLayers(self_e) # DOMAIN self_e
\* C8, amended: the result is the sum over e[0], e[1], e[2], and for L <= 3
\* it equals the sum over all error layers (for L = 2 nothing is left out, for
\* L = 3 the layer left out, e[3], is zero).
C8_FirstThreeLayers ==
    pc = "optimizer_step" =>
        /\ disc = FirstThree(self_e)
        /\ args.L <= 3 => disc = TotalDiscrepancy(self_e)
\* C8: for L = 4 a settled state whose result differs from the total.
C8_Witness ==
    /\ pc = "optimizer_step"
    /\ args.L = 4
    /\ disc # TotalDiscrepancy(self_e)

\* C9, as claimed: the update of z[i] in iteration k reads errors written by
\* the recompute pass of iteration k-1 (initial zeros when k = 1), the
\* recompute pass starts after every z[1..L] was updated in iteration k and
\* reads only such z (stated for L >= 2).
C9_PassOrder ==
    /\ (pc = "update" /\ args.L >= 2) => eIter[i - 1] = k - 1 /\ eIter[i] = k - 1
    /\ pc \in {"recompute0", "recompute"} => \A j \in 1..args.L : zIter[j] = k
    /\ pc = "recompute" => zIter[i] = k /\ zIter[i + 1] = k
\* C9, amended: as claimed, except that e[L] is never recomputed, so the
\* drive of the top layer reads its initial zeros in every iteration.
C9_PassOrderButTop ==
    /\ pc = "update" =>
          /\ eIter[i - 1] = k - 1
          /\ IF i = args.L THEN eIter[i] = 0 ELSE eIter[i] = k - 1
          /\ \A j \in DOMAIN eIter : eIter[j] < k
    /\ pc \in {"recompute0", "recompute"} => \A j \in 1..args.L : zIter[j] = k
    /\ pc = "recompute" => zIter[i] = k /\ zIter[i + 1] = k
\* C9: the top layer of a model of depth >= 2 is about to be updated in a
\* second or later iteration, from an error below it that is not zero.
C9_Witness ==
    /\ pc = "update"
    /\ k >= 2
    /\ args.L >= 2
    /\ i = args.L
    /\ NonZero(e[i - 1])

\* C10: after infer(x, K) every latent z[i] with i >= K is zero, e[L] is
\* zero, and for K = 1 the error e[0] is x - g_out(0) = x - 1/2.
C10_OneLayerPerIteration ==
    pc = "zero_grad" =>
        /\ \A j \in 1..args.L : j >= K => AllZero(self_z[j])
        /\ AllZero(self_e[args.L])
        /\ K = 1 =>
              \A r \in 1..Rows(self_e[0]), c \in 1..Cols(self_e[0]) :
                  2 * self_e[0][r][c] = 2 * At(x, r, c) - One
\* C10: infer with K = 2 has returned for a model of depth >= 3: z[1] has
\* moved, the layers above have not.
C10_Witness ==
    /\ pc = "zero_grad"
    /\ K = 2
    /\ args.L >= 3
    /\ NonZero(self_z[1])
====
